---- MODULE Spec2Model ----
(***************************************************************************)
(* Model of utils.py: the batch collater built by get_custom_collater and  *)
(* the tokenizer preparation prepare_tokenizer.                            *)
(*                                                                         *)
(* A text (a Python str) is a sequence of atoms; an atom is a marker       *)
(* literal such as "[ImageFirst]" or "[012]", or one word of a caption.    *)
(* String concatenation is sequence concatenation.  The tokenizer maps a   *)
(* text to tokens (strings) and tokens to ids through its vocabulary.      *)
(* Probabilities and uniform draws are rationals with denominator PDen.    *)
(***************************************************************************)
EXTENDS Integers, Sequences, FiniteSets, TLC

(* ------------------------------ variables ------------------------------ *)
VARIABLES
  tokenizer,              \* the tokenizer the collater closes over
  vocab0,                 \* its vocabulary before any preparation
  applied,                \* applications of prepare_tokenizer so far
  p,                      \* the collater's p
  pc,                     \* "idle", "loop", "done" or "failed"
  features,               \* the batch of the current call
  i,                      \* the example the loop is at (1-based)
  chosen,                 \* caption of each example processed so far
  prompts,
  image_start_positions,
  kinds,
  batch,                  \* <<>> until the call returns, then <<the record>>
  calls                   \* the calls made on rng and on the tokenizer, in order

(* ----------------------------- bounds ---------------------------------- *)
MaxBatch == 2      \* examples per batch: 0..MaxBatch
PDen == 3          \* p and u are multiples of 1/PDen
MaxBos == 1        \* sequence-start tokens the tokenizer prepends: 0..MaxBos
MaxPrepare == 2    \* applications of prepare_tokenizer in one behaviour
MaxBase == 3       \* length of an original vocabulary in SpecPrep

(* --------------------------- module constants -------------------------- *)
IMAGE_DIM == 32
IMAGE_LEN == IMAGE_DIM * IMAGE_DIM
NUM_COLORS == 512

\* f"{i:0>3}": the decimal digits of i, padded on the left with "0" to width 3
Pad3(n) ==
  IF n < 10 THEN "00" \o ToString(n)
  ELSE IF n < 100 THEN "0" \o ToString(n)
  ELSE ToString(n)

\* PIXEL_TOKENS[n + 1] is the source's PIXEL_TOKENS[n]
PIXEL_TOKENS == [n \in 1..NUM_COLORS |-> "[" \o Pad3(n - 1) \o "]"] \o <<>>
IMAGE_TOKEN == "[Image]"
IMAGE_FIRST_TOKEN == "[ImageFirst]"
TEXT_TOKEN == "[Text]"
TEXT_FIRST_TOKEN == "[TextFirst]"

STRUCTURAL_TOKENS == <<IMAGE_FIRST_TOKEN, TEXT_FIRST_TOKEN, IMAGE_TOKEN, TEXT_TOKEN>>

Range(s) == {s[k] : k \in 1..Len(s)}

\* The sequence s with its elements computed once (a tuple).
Tuple(s) == s \o <<>>
PixelSet == Range(PIXEL_TOKENS)
StructuralSet == Range(STRUCTURAL_TOKENS)
MarkerSet == PixelSet \cup StructuralSet

(* ------------------------------ tokenizer ------------------------------ *)
\* A tokenizer is [encoder : token -> id, decoder : <<token>> with the token
\* of id k at k + 1, bos : the number of sequence-start tokens it prepends].
BOS_TOKEN == "</s>"
PAD_TOKEN == "<pad>"
UNK_TOKEN == "<unk>"
BASE_VOCAB == <<"<s>", PAD_TOKEN, BOS_TOKEN, UNK_TOKEN, "[", "]", "a", "cat", "dog", "feline">>

\* The tokens of new_tokens[lo..hi] that tokenizer.add_tokens registers, in list
\* order: those not yet in the vocabulary, each once (its first occurrence).
RECURSIVE FreshTokens(_, _, _, _)
FreshTokens(tk, new_tokens, lo, hi) ==
  IF lo > hi THEN <<>>
  ELSE IF lo = hi
  THEN IF \/ new_tokens[lo] \in DOMAIN tk.encoder
          \/ \E j \in 1..(lo - 1) : new_tokens[j] = new_tokens[lo]
       THEN <<>>
       ELSE <<new_tokens[lo]>>
  ELSE LET mid == (lo + hi) \div 2
       IN FreshTokens(tk, new_tokens, lo, mid) \o FreshTokens(tk, new_tokens, mid + 1, hi)

\* The ids of the registered tokens: fresh[k] gets the next free id, first + k - 1.
RECURSIVE FreshIds(_, _, _, _)
FreshIds(fresh, first, lo, hi) ==
  IF lo = hi THEN fresh[lo] :> (first + lo - 1)
  ELSE LET mid == (lo + hi) \div 2
       IN FreshIds(fresh, first, lo, mid) @@ FreshIds(fresh, first, mid + 1, hi)

\* A tokenizer whose vocabulary is the non-empty list toks, ids in list order.
MakeTokenizer(toks, nbos) ==
  [encoder |-> FreshIds(toks, 0, 1, Len(toks)),
   decoder |-> toks,
   bos |-> nbos]

\* tokenizer.add_tokens(new_tokens): each token not yet in the vocabulary gets
\* the next free id, in list order; a token already present is left alone.
add_tokens(tk, new_tokens) ==
  LET fresh == FreshTokens(tk, new_tokens, 1, Len(new_tokens))
  IN IF fresh = <<>> THEN tk
     ELSE [encoder |-> tk.encoder @@ FreshIds(fresh, Len(tk.decoder), 1, Len(fresh)),
           decoder |-> tk.decoder \o fresh,
           bos |-> tk.bos]

\* A preparation that adds the pixel tokens only; C8 tells it from
\* prepare_tokenizer.
prepare_tokenizer_PixelsOnly(tk) == add_tokens(tk, PIXEL_TOKENS)

\* tokenizer.add_tokens(PIXEL_TOKENS); tokenizer.add_tokens([IMAGE_FIRST_TOKEN,
\* TEXT_FIRST_TOKEN, IMAGE_TOKEN, TEXT_TOKEN])
prepare_tokenizer(tk) ==
  add_tokens(add_tokens(tk, PIXEL_TOKENS), STRUCTURAL_TOKENS)

\* What the vocabulary's subword model makes of a marker that is not one of
\* its tokens: the brackets and the text between them.
InnerOf ==
  [a \in MarkerSet |->
     IF a \in PixelSet
     THEN Pad3((CHOOSE k \in 1..NUM_COLORS : PIXEL_TOKENS[k] = a) - 1)
     ELSE IF a = IMAGE_TOKEN THEN "Image"
     ELSE IF a = IMAGE_FIRST_TOKEN THEN "ImageFirst"
     ELSE IF a = TEXT_TOKEN THEN "Text"
     ELSE "TextFirst"]

\* The tokens of one atom: a vocabulary entry is one token (never split).
Pieces(tk, atom) ==
  IF atom \in DOMAIN tk.encoder THEN <<atom>>
  ELSE IF atom \in MarkerSet THEN <<"[", InnerOf[atom], "]">>
  ELSE <<UNK_TOKEN>>

RECURSIVE TokenizeRange(_, _, _, _)
TokenizeRange(tk, text, lo, hi) ==
  IF lo > hi THEN <<>>
  ELSE IF lo = hi THEN Pieces(tk, text[lo])
  ELSE LET mid == (lo + hi) \div 2
       IN TokenizeRange(tk, text, lo, mid) \o TokenizeRange(tk, text, mid + 1, hi)

\* tokenizer.tokenize(text): the tokens of text, with no sequence-start token
tokenize(tk, text) == TokenizeRange(tk, text, 1, Len(text))

TokenId(tk, tok) ==
  IF tok \in DOMAIN tk.encoder THEN tk.encoder[tok] ELSE tk.encoder[UNK_TOKEN]

\* The ids of one prompt as tokenizer(...) encodes it: tk.bos sequence-start
\* tokens, then the tokens of the text.
encode(tk, text) ==
  LET toks == [k \in 1..tk.bos |-> BOS_TOKEN] \o tokenize(tk, text)
  IN Tuple([k \in 1..Len(toks) |-> TokenId(tk, toks[k])])

MaxOf(S) == IF S = {} THEN 0 ELSE CHOOSE m \in S : \A x \in S : x <= m

\* The rows padded on the right to the given width: the ids and the mask.
PadRows(rows, width, pad) ==
  [input_ids |->
     Tuple([r \in 1..Len(rows) |->
        Tuple([c \in 1..width |-> IF c <= Len(rows[r]) THEN rows[r][c] ELSE pad])]),
   attention_mask |->
     Tuple([r \in 1..Len(rows) |->
        Tuple([c \in 1..width |-> IF c <= Len(rows[r]) THEN 1 ELSE 0])])]

PadToLongest(rows, pad) ==
  PadRows(rows, MaxOf({Len(rows[r]) : r \in 1..Len(rows)}), pad)

\* tokenizer(prompts, return_tensors="pt", padding=True): every row padded on
\* the right to the longest row of the batch.
encode_batch(tk, texts) ==
  PadToLongest(Tuple([r \in 1..Len(texts) |-> encode(tk, texts[r])]),
               TokenId(tk, PAD_TOKEN))

(* ------------------------------- inputs -------------------------------- *)
\* Palette images: a string of pixel codes, one code per pixel.
ImageA == Tuple([k \in 1..IMAGE_LEN |-> PIXEL_TOKENS[((7 * k) % NUM_COLORS) + 1]])
ImageB == Tuple([k \in 1..IMAGE_LEN |-> PIXEL_TOKENS[((3 * k + 5) % NUM_COLORS) + 1]])
ImageShort == <<PIXEL_TOKENS[13], PIXEL_TOKENS[46]>>     \* "[012][045]"

StrCaption(text) == [isStr |-> TRUE, str |-> text, list |-> <<>>]
ListCaption(texts) == [isStr |-> FALSE, str |-> <<>>, list |-> texts]

\* The examples b of a batch: b["palette_images"] and b["captions"].
Examples ==
  { [palette_images |-> ImageA, captions |-> StrCaption(<<"cat">>)],
    [palette_images |-> ImageA, captions |-> ListCaption(<< <<"a", "cat">>, <<"feline">> >>)],
    [palette_images |-> ImageShort, captions |-> StrCaption(<<"dog">>)],
    [palette_images |-> ImageB, captions |-> ListCaption(<< <<"dog">> >>)] }

Batches == UNION {[1..n -> Examples] : n \in 0..MaxBatch}

\* p, in units of 1/PDen: from below 0.0 to above 1.0
PValues == (-1)..(PDen + 1)
\* rng.random() is in [0, 1): in units of 1/PDen
UValues == 0..(PDen - 1)

(* ------------------------------- state --------------------------------- *)
vars == <<tokenizer, vocab0, applied, p, pc, features, i, chosen, prompts,
          image_start_positions, kinds, batch, calls>>

Event(op, val) == [op |-> op, val |-> val]

(* ------------------------------ collater ------------------------------- *)
\* A check of p that turns 1.0 away (the half-open interval); C1 tells it
\* from ValidP.
ValidP_HalfOpen(pp) == 0 <= pp /\ pp < PDen

\* assert 0.0 <= p <= 1.0
ValidP(pp) == 0 <= pp /\ pp <= PDen

\* A coin toss that is also text-first at u = 1.0 - p; C2 tells it from
\* CoinToss.
CoinToss_AtLeast(u, pp) == u >= PDen - pp

\* coin_toss = rng.random() > (1.0 - p)
CoinToss(u, pp) == u > PDen - pp

\* A resolution that takes the first caption whatever rng.choice picked; C6
\* tells it from ResolveCaption.
ResolveCaption_First(captions, k) ==
  IF captions.isStr THEN captions.str ELSE captions.list[1]

\* caption = captions if type(captions) is str else rng.choice(captions);
\* k is the index rng.choice picks.
ResolveCaption(captions, k) ==
  IF captions.isStr THEN captions.str ELSE captions.list[k]

\* The indices rng.choice may pick; {0} stands for no draw.
ChoiceRange(captions) ==
  IF captions.isStr THEN {0} ELSE 1..Len(captions.list)

\* A prompt whose image-first layout puts [Text] before the image; C5 tells it
\* from Prompt.
Prompt_TextMarkerEarly(coin_toss, caption, image) ==
  IF coin_toss
  THEN <<TEXT_FIRST_TOKEN>> \o caption \o <<IMAGE_TOKEN>> \o image
  ELSE <<IMAGE_FIRST_TOKEN, TEXT_TOKEN>> \o image \o caption

\* prompt = f"{TEXT_FIRST_TOKEN}{caption}{IMAGE_TOKEN}{image}" if coin_toss
\* else f"{IMAGE_FIRST_TOKEN}{image}{TEXT_TOKEN}{caption}"
Prompt(coin_toss, caption, image) ==
  IF coin_toss
  THEN <<TEXT_FIRST_TOKEN>> \o caption \o <<IMAGE_TOKEN>> \o image
  ELSE <<IMAGE_FIRST_TOKEN>> \o image \o <<TEXT_TOKEN>> \o caption

\* An offset that counts one token more in the text-first layout; C9 tells it
\* from ImageStartPosition.
ImageStartPosition_TextFirst4(tk, coin_toss, caption) ==
  IF coin_toss THEN 4 + Len(tokenize(tk, caption)) ELSE 2

\* image_start_position = 3 + len(tokenizer.tokenize(caption)) if coin_toss
\* else 2
ImageStartPosition(tk, coin_toss, caption) ==
  IF coin_toss THEN 3 + Len(tokenize(tk, caption)) ELSE 2

\* The kinds swapped; C7 tells it from Kind.
Kind_Swapped(coin_toss) == IF coin_toss THEN 0 ELSE 1

\* kinds.append(1 if coin_toss else 0)
Kind(coin_toss) == IF coin_toss THEN 1 ELSE 0

\* A span one position short; C3 tells it from ImageMaskRow.
ImageMaskRow_OneShort(width, start) ==
  Tuple([c \in 1..width |-> start <= c - 1 /\ c - 1 < start + IMAGE_LEN - 1])

\* image_mask[start : start + IMAGE_LEN] = True on a row of zeros of the given
\* width; positions are 0-based in the source and c - 1 here.  A slice
\* assignment past the end of the row is cut at the row's end.
ImageMaskRow(width, start) ==
  Tuple([c \in 1..width |-> start <= c - 1 /\ c - 1 < start + IMAGE_LEN])

\* torch.zeros(size=batch["attention_mask"].shape, dtype=bool) with the span of
\* each row set.
ImageMasks(attention_mask, positions) ==
  Tuple([r \in 1..Len(attention_mask) |->
           ImageMaskRow(Len(attention_mask[r]), positions[r])])

\* The record the collater returns.
BatchRecord(enc, positions, kinds_) ==
  [input_ids |-> enc.input_ids,
   attention_mask |-> enc.attention_mask,
   image_masks |-> ImageMasks(enc.attention_mask, positions),
   kinds |-> kinds_]

\* The call: batch = {}, the assertion on p, the empty lists.
Call(fs) ==
  /\ pc = "idle"
  /\ features' = fs
  /\ i' = 1
  /\ chosen' = <<>>
  /\ prompts' = <<>>
  /\ image_start_positions' = <<>>
  /\ kinds' = <<>>
  /\ batch' = <<>>
  /\ calls' = <<>>
  /\ pc' = IF ValidP(p) THEN "loop" ELSE "failed"
  /\ UNCHANGED <<tokenizer, vocab0, applied, p>>

\* A pass of the loop that draws the caption before the uniform value; C10
\* tells it from Iterate.
Iterate_ChoiceFirst(u, k) ==
  /\ pc = "loop"
  /\ i <= Len(features)
  /\ k \in ChoiceRange(features[i].captions)
  /\ LET image == features[i].palette_images
         captions == features[i].captions
         coin_toss == CoinToss(u, p)
         caption == ResolveCaption(captions, k)
     IN /\ chosen' = Append(chosen, caption)
        /\ prompts' = Append(prompts, Prompt(coin_toss, caption, image))
        /\ image_start_positions' =
             Append(image_start_positions, ImageStartPosition(tokenizer, coin_toss, caption))
        /\ kinds' = Append(kinds, Kind(coin_toss))
        /\ calls' = calls \o (IF captions.isStr THEN <<>> ELSE <<Event("choice", k)>>)
                          \o <<Event("random", u)>>
                          \o (IF coin_toss
                              THEN <<Event("tokenize", Len(tokenize(tokenizer, caption)))>>
                              ELSE <<>>)
  /\ i' = i + 1
  /\ UNCHANGED <<tokenizer, vocab0, applied, p, pc, features, batch>>

\* One pass of the loop over zip(batch_images, batch_captions).
Iterate(u, k) ==
  /\ pc = "loop"
  /\ i <= Len(features)
  /\ k \in ChoiceRange(features[i].captions)
  /\ LET image == features[i].palette_images
         captions == features[i].captions
         coin_toss == CoinToss(u, p)
         caption == ResolveCaption(captions, k)
     IN /\ chosen' = Append(chosen, caption)
        /\ prompts' = Append(prompts, Prompt(coin_toss, caption, image))
        /\ image_start_positions' =
             Append(image_start_positions, ImageStartPosition(tokenizer, coin_toss, caption))
        /\ kinds' = Append(kinds, Kind(coin_toss))
        /\ calls' = calls \o <<Event("random", u)>>
                          \o (IF captions.isStr THEN <<>> ELSE <<Event("choice", k)>>)
                          \o (IF coin_toss
                              THEN <<Event("tokenize", Len(tokenize(tokenizer, caption)))>>
                              ELSE <<>>)
  /\ i' = i + 1
  /\ UNCHANGED <<tokenizer, vocab0, applied, p, pc, features, batch>>

\* After the loop: the batch is tokenized, the masks are filled in and the
\* record is returned.
Finalize ==
  /\ pc = "loop"
  /\ i > Len(features)
  /\ batch' = << BatchRecord(encode_batch(tokenizer, prompts), image_start_positions, kinds) >>
  /\ calls' = Append(calls, Event("encode", Len(prompts)))
  /\ pc' = "done"
  /\ UNCHANGED <<tokenizer, vocab0, applied, p, features, i, chosen, prompts,
                 image_start_positions, kinds>>

\* The caller takes what the call produced (the record, or the assertion
\* error); the call's frame is gone.
Return ==
  /\ pc \in {"done", "failed"}
  /\ pc' = "idle"
  /\ features' = <<>>
  /\ i' = 1
  /\ chosen' = <<>>
  /\ prompts' = <<>>
  /\ image_start_positions' = <<>>
  /\ kinds' = <<>>
  /\ batch' = <<>>
  /\ calls' = <<>>
  /\ UNCHANGED <<tokenizer, vocab0, applied, p>>

\* prepare_tokenizer(tokenizer), between calls of the collater.
Prepare ==
  /\ pc = "idle"
  /\ applied < MaxPrepare
  /\ tokenizer' = prepare_tokenizer(tokenizer)
  /\ applied' = applied + 1
  /\ UNCHANGED <<vocab0, p, pc, features, i, chosen, prompts,
                 image_start_positions, kinds, batch, calls>>

IdleLocals ==
  /\ pc = "idle"
  /\ features = <<>>
  /\ i = 1
  /\ chosen = <<>>
  /\ prompts = <<>>
  /\ image_start_positions = <<>>
  /\ kinds = <<>>
  /\ batch = <<>>
  /\ calls = <<>>

Init ==
  /\ \E nbos \in 0..MaxBos : tokenizer = MakeTokenizer(BASE_VOCAB, nbos)
  /\ vocab0 = BASE_VOCAB
  /\ applied = 0
  /\ p \in PValues
  /\ IdleLocals

Next ==
  \/ \E fs \in Batches : Call(fs)
  \/ \E u \in UValues : \E k \in 0..2 : Iterate(u, k)
  \/ Finalize
  \/ Return
  \/ Prepare

Spec == Init /\ [][Next]_vars

(* --------------------- prepare_tokenizer on its own --------------------- *)
\* Tokens an original vocabulary is made of; none is a marker token.
BasePool == {BOS_TOKEN, PAD_TOKEN, UNK_TOKEN, "a", "cat"}

\* The original vocabularies: lists without repetition over BasePool.
BaseVocabs ==
  UNION {{v \in [1..n -> BasePool] : \A a, b \in 1..n : v[a] = v[b] => a = b} : n \in 1..MaxBase}

InitPrep ==
  /\ \E v \in BaseVocabs : \E nbos \in 0..MaxBos :
        /\ tokenizer = MakeTokenizer(v, nbos)
        /\ vocab0 = v
  /\ applied = 0
  /\ p = 0
  /\ IdleLocals

NextPrep == Prepare

SpecPrep == InitPrep /\ [][NextPrep]_vars


(* ------------------------- reading the state --------------------------- *)
Done == pc = "done"
Rec == batch[1]
Rows == 1..Len(Rec.attention_mask)
Width(r) == Len(Rec.attention_mask[r])

\* The real (unpadded) token length of row r: the sum of its attention mask.
RealLen(r) == Cardinality({c \in 1..Width(r) : Rec.attention_mask[r][c] = 1})

TrueCount(r) == Cardinality({c \in 1..Width(r) : Rec.image_masks[r][c]})

IsRandom(e) == e.op = "random"
IsChoice(e) == e.op = "choice"
IsTokenize(e) == e.op = "tokenize"
IsEncode(e) == e.op = "encode"

\* The uniform draws of the call so far, in the order they were made.
Draws == SelectSeq(calls, IsRandom)

\* The tokenizer has been prepared: every marker is one token of its own.
MarkersAtomic == \A a \in MarkerSet : a \in DOMAIN tokenizer.encoder

C2_KindFollowsDraw ==
  /\ Len(Draws) = Len(kinds)
  /\ \A j \in 1..Len(kinds) :
        /\ kinds[j] = 1 <=> Draws[j].val > PDen - p
        /\ kinds[j] = 0 <=> ~(Draws[j].val > PDen - p)
        /\ p = 0 => kinds[j] = 0
        /\ p = PDen => (kinds[j] = 0 <=> Draws[j].val = 0)

\* At p = 1.0 a batch came out with one text-first row (u > 0) and one
\* image-first row (u = 0).
C2_Witness ==
  /\ Done /\ p = PDen /\ Len(kinds) = 2
  /\ kinds[1] = 1 /\ Draws[1].val > 0
  /\ kinds[2] = 0 /\ Draws[2].val = 0

(* -------------------------------- C3 ----------------------------------- *)
\* The offset the layout of row r calls for: 2 when image-first, 3 plus the
\* token count of the caption when text-first.
LayoutOffset(r) ==
  IF kinds[r] = 1 THEN 3 + Len(tokenize(tokenizer, chosen[r])) ELSE 2

\* C3: in every row whose real length is at least offset + IMAGE_LEN, in both
\* layouts, image_masks has exactly IMAGE_LEN True entries and they are the
\* contiguous span [offset, offset + IMAGE_LEN).
C3_FullSpan ==
  Done =>
    \A r \in Rows :
      RealLen(r) >= LayoutOffset(r) + IMAGE_LEN =>
        /\ image_start_positions[r] = LayoutOffset(r)
        /\ TrueCount(r) = IMAGE_LEN
        /\ \A c \in 1..Width(r) :
             Rec.image_masks[r][c] <=>
               (LayoutOffset(r) <= c - 1 /\ c - 1 < LayoutOffset(r) + IMAGE_LEN)

\* A batch with a text-first row and an image-first row, both long enough.
C3_Witness ==
  /\ Done /\ Len(kinds) = 2
  /\ kinds[1] = 1 /\ RealLen(1) >= LayoutOffset(1) + IMAGE_LEN
  /\ kinds[2] = 0 /\ RealLen(2) >= LayoutOffset(2) + IMAGE_LEN
  /\ RealLen(1) # RealLen(2)

(* -------------------------------- C4 ----------------------------------- *)
MinOf(a, b) == IF a <= b THEN a ELSE b

\* Row r of image_masks is True exactly at the 0-based positions from..to - 1.
SpanIs(r, from, to) ==
  \A c \in 1..Width(r) : Rec.image_masks[r][c] <=> (from <= c - 1 /\ c - 1 < to)

\* C4: composed with p = 0.0 every row is image-first and each row of
\* image_masks is True exactly on [2, 2 + IMAGE_LEN) intersected with that
\* row's own real length, also when the image is shorter than IMAGE_LEN and
\* the rows differ in real length.
C4_MaskWithinOwnRealLength ==
  (Done /\ p = 0) =>
    \A r \in Rows : SpanIs(r, 2, MinOf(2 + IMAGE_LEN, RealLen(r)))

\* Composed with p = 0.0: an image shorter than IMAGE_LEN in a row shorter
\* than the other row, whose mask reaches into its padding.
C4_Witness ==
  /\ Done /\ p = 0 /\ Len(kinds) = 2
  /\ Len(features[1].palette_images) < IMAGE_LEN
  /\ RealLen(1) < RealLen(2)
  /\ \E c \in 1..Width(1) : Rec.image_masks[1][c] /\ Rec.attention_mask[1][c] = 0

(* -------------------------------- C5 ----------------------------------- *)
\* tokenizer.decode of one id: the token the vocabulary holds for it
Decode(id) == tokenizer.decoder[id + 1]

\* The decoded tokens of row r at the columns lo..hi where image_masks is
\* True, in column order.
RECURSIVE MaskedTokens(_, _, _)
MaskedTokens(r, lo, hi) ==
  IF lo > hi THEN <<>>
  ELSE IF lo = hi
  THEN IF Rec.image_masks[r][lo] THEN <<Decode(Rec.input_ids[r][lo])>> ELSE <<>>
  ELSE LET mid == (lo + hi) \div 2
       IN MaskedTokens(r, lo, mid) \o MaskedTokens(r, mid + 1, hi)

\* C5: with one sequence-start token, every marker and pixel code one token
\* and an image of exactly IMAGE_LEN pixel codes, the tokens of an image-first
\* row under its mask decode, in order, to exactly the image string: nothing
\* but pixel tokens is under the mask and no pixel token is outside it.
C5_RoundTrip ==
  (Done /\ tokenizer.bos = 1 /\ MarkersAtomic) =>
    \A r \in Rows :
      (kinds[r] = 0 /\ Len(features[r].palette_images) = IMAGE_LEN) =>
        /\ MaskedTokens(r, 1, Width(r)) = features[r].palette_images
        /\ \A c \in 1..Width(r) :
             /\ Rec.image_masks[r][c] =>
                  (Rec.attention_mask[r][c] = 1 /\ Decode(Rec.input_ids[r][c]) \in PixelSet)
             /\ ~Rec.image_masks[r][c] => Decode(Rec.input_ids[r][c]) \notin PixelSet

\* An image-first row of a prepared tokenizer with a full image, beside a
\* longer row, so that the row is padded.
C5_Witness ==
  /\ Done /\ tokenizer.bos = 1 /\ MarkersAtomic /\ Len(kinds) = 2
  /\ kinds[1] = 0 /\ Len(features[1].palette_images) = IMAGE_LEN
  /\ RealLen(1) < Width(1)

(* -------------------------------- C6 ----------------------------------- *)
\* The place in calls of the uniform draw made for example j.
RandomAt(j) ==
  CHOOSE x \in 1..Len(calls) :
    IsRandom(calls[x]) /\ Cardinality({y \in 1..x : IsRandom(calls[y])}) = j

\* The calls made for example j: from its uniform draw up to the next one.
EventsOf(j) ==
  SubSeq(calls, RandomAt(j),
         IF j < Len(Draws) THEN RandomAt(j + 1) - 1
         ELSE Len(calls) - Len(SelectSeq(calls, IsEncode)))

ChoicesOf(j) == SelectSeq(EventsOf(j), IsChoice)

\* The layout of kind kd for a caption and an image.
Layout(kd, caption, image) ==
  IF kd = 1
  THEN <<TEXT_FIRST_TOKEN>> \o caption \o <<IMAGE_TOKEN>> \o image
  ELSE <<IMAGE_FIRST_TOKEN>> \o image \o <<TEXT_TOKEN>> \o caption

\* C6: for a sequence-valued captions field exactly one choice draw is made
\* and the caption is the one element it picked; for a string no choice draw
\* is made and the caption is the string itself.  That caption is the one in
\* the prompt and the one whose token count gives the text-first offset.
C6_OneCaptionUsedThroughout ==
  /\ Len(chosen) = Len(Draws)
  /\ Len(prompts) = Len(Draws)
  /\ Len(image_start_positions) = Len(Draws)
  /\ \A j \in 1..Len(Draws) :
       /\ features[j].captions.isStr =>
            /\ ChoicesOf(j) = <<>>
            /\ chosen[j] = features[j].captions.str
       /\ ~features[j].captions.isStr =>
            /\ Len(ChoicesOf(j)) = 1
            /\ ChoicesOf(j)[1].val \in 1..Len(features[j].captions.list)
            /\ chosen[j] = features[j].captions.list[ChoicesOf(j)[1].val]
       /\ prompts[j] = Layout(kinds[j], chosen[j], features[j].palette_images)
       /\ kinds[j] = 1 =>
            image_start_positions[j] = 3 + Len(tokenize(tokenizer, chosen[j]))

\* A text-first row whose caption is the second element of a list of two.
C6_Witness ==
  /\ Done /\ Len(kinds) >= 1 /\ kinds[1] = 1
  /\ ~features[1].captions.isStr
  /\ Len(features[1].captions.list) = 2
  /\ ChoicesOf(1)[1].val = 2
  /\ chosen[1] = features[1].captions.list[2]
  /\ image_start_positions[1] = 4

(* -------------------------------- C7 ----------------------------------- *)
\* The ids of row r without its padding.
RowIds(r) == SubSeq(Rec.input_ids[r], 1, RealLen(r))

\* Row r's attention mask is len ones followed by zeros.
PaddedOnRight(r, len) ==
  \A c \in 1..Width(r) : Rec.attention_mask[r][c] = 1 <=> c <= len

\* The captions an example offers.
CaptionsOf(ex) ==
  IF ex.captions.isStr THEN {ex.captions.str} ELSE Range(ex.captions.list)

\* The offset the layout of kind kd gives the image span.
OffsetOf(kd, caption) ==
  IF kd = 1 THEN 3 + Len(tokenize(tokenizer, caption)) ELSE 2

\* Row r is the example ex with this caption in the layout of kind kd.
RowIs(r, ex, kd, caption, off) ==
  /\ RowIds(r) = encode(tokenizer, Layout(kd, caption, ex.palette_images))
  /\ SpanIs(r, off, off + IMAGE_LEN)

\* C7: the record has one row per example, in input order: kinds has length
\* n with values in {0, 1}, image_masks has the shape of attention_mask, and
\* row r is example r in the text-first layout with offset 3 + caption token
\* count exactly when kinds[r] = 1, in the image-first layout with offset 2
\* exactly when kinds[r] = 0.
C7_RowPerExample ==
  Done =>
    /\ Len(Rec.kinds) = Len(features)
    /\ Len(Rec.input_ids) = Len(features)
    /\ Len(Rec.attention_mask) = Len(features)
    /\ Len(Rec.image_masks) = Len(features)
    /\ \A r \in 1..Len(features) :
         /\ Rec.kinds[r] \in {0, 1}
         /\ Len(Rec.image_masks[r]) = Len(Rec.attention_mask[r])
         /\ Len(Rec.input_ids[r]) = Len(Rec.attention_mask[r])
         /\ PaddedOnRight(r, RealLen(r))
         /\ \E caption \in CaptionsOf(features[r]) :
              RowIs(r, features[r], Rec.kinds[r], caption,
                    OffsetOf(Rec.kinds[r], caption))
         /\ Rec.kinds[r] = 1 <=> prompts[r][1] = TEXT_FIRST_TOKEN
         /\ Rec.kinds[r] = 0 <=> prompts[r][1] = IMAGE_FIRST_TOKEN

\* Two different examples, the first text-first and the second image-first.
C7_Witness ==
  /\ Done /\ Len(features) = 2 /\ features[1] # features[2]
  /\ Rec.kinds = <<1, 0>>

(* -------------------------------- C8 ----------------------------------- *)
\* C8: after one or more applications of prepare_tokenizer each of the
\* NUM_COLORS pixel tokens and the four structural tokens is in the vocabulary
\* exactly once, with an id of its own that the original vocabulary did not
\* use; the tokens of the original vocabulary keep their ids; and one more
\* application leaves the token-to-id mapping as it is.
C8_PrepareIdempotent ==
  applied >= 1 =>
    /\ Len(tokenizer.decoder) = Len(vocab0) + NUM_COLORS + Len(STRUCTURAL_TOKENS)
    /\ Cardinality(DOMAIN tokenizer.encoder) = Len(tokenizer.decoder)
    /\ \A x \in 1..Len(tokenizer.decoder) :
         tokenizer.encoder[tokenizer.decoder[x]] = x - 1
    /\ \A m \in MarkerSet :
         /\ m \in DOMAIN tokenizer.encoder
         /\ tokenizer.encoder[m] >= Len(vocab0)
         /\ tokenizer.decoder[tokenizer.encoder[m] + 1] = m
    /\ \A x \in 1..Len(vocab0) : tokenizer.encoder[vocab0[x]] = x - 1
    /\ prepare_tokenizer(tokenizer) = tokenizer

\* A vocabulary of three tokens prepared twice.
C8_Witness ==
  /\ applied = 2
  /\ Len(vocab0) = 3
  /\ Len(tokenizer.decoder) = 3 + NUM_COLORS + 4

(* -------------------------------- C9 ----------------------------------- *)
\* What the claim supposes of row r: one sequence-start token; the prompt
\* tokenizes to its marker, the caption's tokens as in isolation, the other
\* marker and the image's tokens; and the image is IMAGE_LEN tokens.
TokenizesAsLaidOut(r, caption, image) ==
  /\ tokenizer.bos = 1
  /\ Len(tokenize(tokenizer, image)) = IMAGE_LEN
  /\ tokenize(tokenizer, prompts[r]) =
       Layout(kinds[r], tokenize(tokenizer, caption), tokenize(tokenizer, image))

\* The masked span of row r, starting at start, is within len real tokens.
SpanWithinReal(r, start, len) ==
  /\ start + IMAGE_LEN <= len
  /\ \A c \in 1..Width(r) : Rec.image_masks[r][c] => Rec.attention_mask[r][c] = 1
  /\ kinds[r] = 1 => start + IMAGE_LEN = len

\* C9: when the tokenizer prepends one sequence-start token, emits each marker
\* as one token, tokenizes the caption in the prompt as in isolation and the
\* image to IMAGE_LEN tokens, the offset plus IMAGE_LEN is at most the row's
\* real length, image_masks is True only where attention_mask is 1, and in the
\* text-first layout the span ends at the row's last real token.
C9_SpanWithinRealTokens ==
  Done =>
    \A r \in Rows :
      TokenizesAsLaidOut(r, chosen[r], features[r].palette_images) =>
        SpanWithinReal(r, image_start_positions[r], RealLen(r))

\* A text-first row padded up to the longer row beside it: its span ends at
\* its last real token, short of the padding.
C9_Witness ==
  /\ Done /\ Len(kinds) = 2 /\ kinds[1] = 1
  /\ TokenizesAsLaidOut(1, chosen[1], features[1].palette_images)
  /\ RealLen(1) < Width(1)
  /\ image_start_positions[1] + IMAGE_LEN = RealLen(1)

(* -------------------------------- C10 ---------------------------------- *)
IsRngOrEncode(e) == ~IsTokenize(e)

\* The operations of a sequence of calls.
OpsOf(es) == [x \in 1..Len(es) |-> es[x].op]

\* The draws the first j examples call for.
RECURSIVE ExpectedOps(_)
ExpectedOps(j) ==
  IF j = 0 THEN <<>>
  ELSE ExpectedOps(j - 1) \o <<"random">>
         \o (IF features[j].captions.isStr THEN <<>> ELSE <<"choice">>)

\* The caption of example j according to the draws made.
ReplayCaption(j) ==
  IF features[j].captions.isStr THEN features[j].captions.str
  ELSE features[j].captions.list[ChoicesOf(j)[1].val]

\* The record that the batch, p and the draws made determine.
ReplayRecord ==
  BatchRecord(
    encode_batch(tokenizer,
      [j \in 1..Len(features) |->
         Prompt(CoinToss(Draws[j].val, p), ReplayCaption(j), features[j].palette_images)]),
    [j \in 1..Len(features) |->
       ImageStartPosition(tokenizer, CoinToss(Draws[j].val, p), ReplayCaption(j))],
    [j \in 1..Len(features) |-> Kind(CoinToss(Draws[j].val, p))])

\* C10: a call makes, for each example in batch order, one uniform draw and
\* then one choice draw exactly when the example's captions are a sequence;
\* that is n uniform draws and one choice draw per sequence-valued caption,
\* all before the batch tokenization; and the record returned is the one the
\* batch, p and the draws determine.
C10_DrawsInFixedOrder ==
  /\ pc \in {"loop", "done"} =>
       OpsOf(SelectSeq(calls, IsRngOrEncode)) =
         ExpectedOps(i - 1) \o (IF Done THEN <<"encode">> ELSE <<>>)
  /\ Done =>
       /\ Len(Draws) = Len(features)
       /\ Len(SelectSeq(calls, IsChoice)) =
            Cardinality({j \in 1..Len(features) : ~features[j].captions.isStr})
       /\ IsEncode(calls[Len(calls)])
       /\ Rec = ReplayRecord

\* Two examples, the first with a string caption and the second with a list.
C10_Witness ==
  /\ Done /\ Len(features) = 2
  /\ features[1].captions.isStr /\ ~features[2].captions.isStr
  /\ OpsOf(SelectSeq(calls, IsRngOrEncode)) = <<"random", "random", "choice", "encode">>

====
